---- MODULE Spec2Model ----
(***************************************************************************)
(* A model of rollingf's Roll (roll.go): the write path, the debounced     *)
(* check loops, the handle swap and the background rotation cycle, over an *)
(* abstract directory of inodes.                                           *)
(*                                                                         *)
(* File names are coded as integers: Staging = "_app.log",                 *)
(* Primary = "app.log", k >= 1 = "app.log.k".  Every Write carries one     *)
(* unit of payload (one line of the tests), identified by its write id.    *)
(***************************************************************************)
EXTENDS Integers, Sequences, FiniteSets, TLC

\* ------------------------------------------------------------------ bounds
MaxWrites == 3      \* Write calls issued in one behaviour
MaxWriters == 2     \* Write calls in flight at the same time
MaxCloses == 1      \* Close calls issued in one behaviour
MaxNow == 2         \* latest clock value
MaxKeep == 2        \* largest small MaxBackups value tried
MaxShort == 1       \* most bytes a failing append leaves in the file

\* ------------------------------------------------------------ configuration
SizeLimit == 2      \* MaxSizeChecker(maxSize), in payload units
KeepBackups == 5    \* MaxBackupsFilter(5) as in TestConccurent
KeepAge == 1        \* MaxAgeFilter(d), d > 0, in clock units
RollInterval == 1   \* IntervalChecker(d), d > 0, in clock units

Staging == -1
Primary == 0
MaxName == MaxWrites
Names == Staging..MaxName
MaxIno == MaxWrites + 1
WriteIds == 1..MaxWrites
ProcIds == 1..MaxWrites

NilF == [ino |-> 0, gen |-> 0]
LoopPcs == {"recv", "parked", "check", "roll", "swap"}

VARIABLES
    dir,        \* directory: name -> inode (0: no such file)
    data,       \* inode -> sequence of write ids appended to it
    mtime,      \* inode -> modification time
    btime,      \* inode -> birth time
    nIno,       \* inodes allocated so far
    now,        \* wall clock
    f,          \* r.f: the *os.File, [ino, gen]; NilF is nil
    opened,     \* generations of *os.File objects that are open
    nGen,       \* *os.File objects created so far
    st,         \* r.st: [rSize, birth, hasBirth]
    checkers,   \* r.checkers
    filters,    \* r.filters
    matcher,    \* r.matcher, initialised with the base name
    processor,  \* r.processor
    wLock,      \* rwmu writer: "none", "roll", "close"
    readers,    \* rwmu reader count
    checkCh,    \* number of buffered signals in r.checkCh (capacity 1)
    rotateCh,   \* number of buffered tokens in r.rotateCh (capacity 1)
    loops,      \* check-loop goroutines (checkAndRoll), counted per position
    coPending,  \* checkOnce goroutines spawned by Write, select not yet run
    wr,         \* Write calls: id -> [pc, h, tmp, thr, res]
    nWrites,    \* Write calls issued so far
    proc,       \* process goroutines: id -> [pc, rem, k, i, inflight]
    nProc,      \* process goroutines spawned so far
    closePc,    \* position of the Close call in progress
    nClosed,    \* Close calls that have returned
    nCloseCalls,\* Close calls issued
    log         \* history: write ids in the order they were appended

vars == <<dir, data, mtime, btime, nIno, now, f, opened, nGen, st, checkers,
          filters, matcher, processor, wLock, readers, checkCh, rotateCh, loops, coPending, wr,
          nWrites, proc, nProc, closePc, nClosed, nCloseCalls, log>>

fsVars == <<dir, data, mtime, btime, nIno>>
cfgVars == <<checkers, filters, matcher, processor, now>>
lockVars == <<wLock, readers>>
closeVars == <<closePc, nClosed, nCloseCalls>>
writeVars == <<wr, nWrites, log>>

\* ----------------------------------------------------------------- helpers
min(a, b) == IF a < b THEN a ELSE b

Move(l, a, b) == [p \in LoopPcs |->
                    IF a = b THEN l[p]
                    ELSE IF p = a THEN l[p] - 1
                    ELSE IF p = b THEN l[p] + 1
                    ELSE l[p]]

IdleWrite ==
    [pc |-> "none", h |-> NilF, tmp |-> 0, thr |-> FALSE, res |-> "none", n |-> 0]
\* err is the step at which rollOnce returned an error, "none" without one
IdleProc ==
    [pc |-> "none", rem |-> <<>>, k |-> 0, i |-> 0, inflight |-> FALSE, err |-> "none"]

\* -------------------------------------------------------------- file system
\* os.Rename(old, new): fails if old does not exist, replaces new otherwise.
RenameOk(d, old) == d[old] # 0
Rename(d, old, new) == [d EXCEPT ![new] = d[old], ![old] = 0]

\* os.Remove(name); an error (no such file) leaves the directory unchanged.
Remove(d, name) == [d EXCEPT ![name] = 0]

RECURSIVE RemoveAll(_, _)
RemoveAll(d, names) ==
    IF names = <<>> THEN d
    ELSE IF d[Head(names)] = 0 THEN d
    ELSE RemoveAll(Remove(d, Head(names)), Tail(names))

\* ------------------------------------------------------------------ Rstat
\* Rstat.reset: size, modTime and birth time of the file at the path; the
\* birth time is stored when the platform's stat record carries one.
reset(ino) == [rSize |-> Len(data[ino]), birth |-> btime[ino],
               hasBirth |-> st.hasBirth]

\* ---------------------------------------------------------------- checkers
maxSizeCheck_Exceeds(maxSize, s) ==
    IF maxSize <= 0 THEN FALSE ELSE s.rSize > maxSize

maxSizeCheck(maxSize, s) ==
    IF maxSize <= 0 THEN FALSE ELSE s.rSize >= maxSize

intervalCheck_AtLeast(interval, s) ==
    IF interval <= 0 THEN FALSE
    ELSE IF ~s.hasBirth THEN FALSE
    ELSE now >= s.birth + interval

intervalCheck(interval, s) ==
    IF interval <= 0 THEN FALSE
    ELSE IF ~s.hasBirth THEN FALSE
    ELSE now > s.birth + interval

Check(c, s) ==
    IF c.kind = "interval" THEN intervalCheck(c.v, s) ELSE maxSizeCheck(c.v, s)

\* a Checker written by the user of the package whose Check returns an
\* error; IntervalChecker and MaxSizeChecker never return one
FailingChecker == [kind |-> "failing", v |-> 0]
CheckErr(c, s) == c.kind = "failing"

\* Roll.checkChain's loop from checker j on: (false, err) at a checker that
\* returns an error, (true, nil) at one that triggers, (false, nil) at the end
RECURSIVE chainFrom(_)
chainFrom(j) ==
    IF j > Len(checkers) THEN [rolling |-> FALSE, err |-> FALSE]
    ELSE IF CheckErr(checkers[j], st) THEN [rolling |-> FALSE, err |-> TRUE]
    ELSE IF Check(checkers[j], st) THEN [rolling |-> TRUE, err |-> FALSE]
    ELSE chainFrom(j + 1)

checkChain_AnyTriggers ==
    \E j \in 1..Len(checkers) :
        ~CheckErr(checkers[j], st) /\ Check(checkers[j], st)

\* Roll.checkChain: the first checker that triggers or fails decides.
checkChain == chainFrom(1).rolling

DefaultChecker(interval, maxSize) ==
    << [kind |-> "interval", v |-> interval], [kind |-> "maxSize", v |-> maxSize] >>

\* ----------------------------------------------------------------- matcher
\* regexMatcher with ^app\.log(\.\d+)?$ : the base name and base.<digits>.
Matcher_SuffixOnly(name) == name >= 1

Match(name) == name >= Primary

\* ------------------------------------------------------- rollOnce's sorting
NameLen(name) ==
    IF name = Staging THEN 8
    ELSE IF name = Primary THEN 7
    ELSE IF name < 10 THEN 9 ELSE 10

\* strconv.Atoi of what follows the last '.', 0 when it is not a number
TailNum(name) == IF name >= 1 THEN name ELSE 0

Less(f1, f2) ==
    IF NameLen(f2) # NameLen(f1) THEN NameLen(f2) > NameLen(f1)
    ELSE TailNum(f1) < TailNum(f2)

RECURSIVE SortFiles(_)
SortFiles(S) ==
    IF S = {} THEN <<>>
    ELSE LET m == CHOOSE x \in S : \A y \in S \ {x} : ~Less(y, x)
         IN  <<m>> \o SortFiles(S \ {m})

\* ----------------------------------------------------------------- filters
maxBackupsFilter_KeepsAll(n, files) ==
    [remains |-> files, removed |-> <<>>, err |-> FALSE, panic |-> FALSE]

\* maxBackupsFilter.Filter; files[:min(len, n)] panics when n is negative.
maxBackupsFilter(n, files) ==
    [remains |-> SubSeq(files, 1, min(Len(files), n)),
     removed |-> IF n >= 0 /\ Len(files) > n
                 THEN SubSeq(files, n + 1, Len(files)) ELSE <<>>,
     err     |-> FALSE,
     panic   |-> min(Len(files), n) < 0]

RECURSIVE ageScan_Strict(_, _, _, _)
ageScan_Strict(d, maxAge, files, idx) ==
    IF idx >= Len(files) THEN [idx |-> idx, err |-> FALSE]
    ELSE IF d[files[idx + 1]] = 0 THEN [idx |-> idx, err |-> TRUE]
    ELSE IF now - mtime[d[files[idx + 1]]] > maxAge THEN [idx |-> idx, err |-> FALSE]
    ELSE ageScan_Strict(d, maxAge, files, idx + 1)

\* Index (0-based, as in the code) at which maxAgeFilter's scan stops, and
\* whether the scan hit an entry it could not stat.
RECURSIVE ageScan(_, _, _, _)
ageScan(d, maxAge, files, idx) ==
    IF idx >= Len(files) THEN [idx |-> idx, err |-> FALSE]
    ELSE IF d[files[idx + 1]] = 0 THEN [idx |-> idx, err |-> TRUE]
    ELSE IF now - mtime[d[files[idx + 1]]] >= maxAge THEN [idx |-> idx, err |-> FALSE]
    ELSE ageScan(d, maxAge, files, idx + 1)

maxAgeFilter_IgnoresStat(d, maxAge, files) ==
    IF maxAge <= 0
    THEN [remains |-> <<>>, removed |-> <<>>, err |-> FALSE, panic |-> FALSE]
    ELSE [remains |-> SubSeq(files, 1, ageScan(d, maxAge, files, 0).idx),
          removed |-> SubSeq(files, ageScan(d, maxAge, files, 0).idx + 1, Len(files)),
          err |-> FALSE, panic |-> FALSE]

maxAgeFilter(d, maxAge, files) ==
    IF maxAge <= 0
    THEN [remains |-> <<>>, removed |-> <<>>, err |-> FALSE, panic |-> FALSE]
    ELSE LET s == ageScan(d, maxAge, files, 0)
         IN  IF s.err
             THEN [remains |-> <<>>, removed |-> <<>>, err |-> TRUE, panic |-> FALSE]
             ELSE [remains |-> SubSeq(files, 1, s.idx),
                   removed |-> SubSeq(files, s.idx + 1, Len(files)),
                   err |-> FALSE, panic |-> FALSE]

Filter_AgeOnly(flt, d, files) ==
    IF flt.kind = "maxBackups"
    THEN [remains |-> files, removed |-> <<>>, err |-> FALSE, panic |-> FALSE]
    ELSE maxAgeFilter(d, flt.v, files)

Filter(flt, d, files) ==
    IF flt.kind = "maxBackups" THEN maxBackupsFilter(flt.v, files)
    ELSE maxAgeFilter(d, flt.v, files)

DefaultFilter(maxAge, maxBackups) ==
    << [kind |-> "maxBackups", v |-> maxBackups], [kind |-> "maxAge", v |-> maxAge] >>

\* --------------------------------------------------------------- processor
\* defaultProcessor.incrTailNumber: no suffix becomes .1, .k becomes .k+1
incrTailNumber(name) == IF name >= 1 THEN name + 1 ELSE 1


\* ------------------------------------------------------ names, spelled out
\* Where the spelling of a name matters a name is the sequence of its
\* characters.  The base name stands for "app.log": letters around one dot.
BaseName == <<"a", ".", "l">>
TmpName == <<"_">> \o BaseName

DigitChars == <<"0", "1", "2", "3", "4", "5", "6", "7", "8", "9">>
IsDigit(c) == \E k \in 1..Len(DigitChars) : DigitChars[k] = c
DigitVal(c) == (CHOOSE k \in 1..Len(DigitChars) : DigitChars[k] = c) - 1

\* IsNumeric: a non-empty run of decimal digits
IsNumeric(str) == Len(str) > 0 /\ \A k \in 1..Len(str) : IsDigit(str[k])

\* strconv.Atoi with its error dropped: 0 for what is not a number
RECURSIVE DigitsVal(_)
DigitsVal(str) ==
    IF str = <<>> THEN 0
    ELSE 10 * DigitsVal(SubSeq(str, 1, Len(str) - 1)) + DigitVal(str[Len(str)])

Atoi(str) == IF IsNumeric(str) THEN DigitsVal(str) ELSE 0

RECURSIVE Itoa(_)
Itoa(n) ==
    IF n < 10 THEN <<DigitChars[n + 1]>>
    ELSE Itoa(n \div 10) \o <<DigitChars[(n % 10) + 1]>>

\* strings.LastIndexByte: 0-based index of the last c, -1 if there is none
LastIndexByte(str, c) ==
    LET S == {k \in 1..Len(str) : str[k] = c}
    IN  IF S = {} THEN -1 ELSE (CHOOSE k \in S : \A j \in S : j <= k) - 1

\* str[from:], from 0-based
From(str, from) == SubSeq(str, from + 1, Len(str))

\* path.Ext: from the last dot to the end, empty without a dot
Ext(str) ==
    IF LastIndexByte(str, ".") = -1 THEN <<>> ELSE From(str, LastIndexByte(str, "."))

\* strings.Split(str, ".") and strings.Join(groups, ".")
RECURSIVE Split(_)
Split(str) ==
    LET S == {k \in 1..Len(str) : str[k] = "."}
    IN  IF S = {} THEN <<str>>
        ELSE LET k == CHOOSE x \in S : \A y \in S : x <= y
             IN  <<SubSeq(str, 1, k - 1)>> \o Split(SubSeq(str, k + 1, Len(str)))

RECURSIVE Join(_)
Join(groups) ==
    IF Len(groups) = 0 THEN <<>>
    ELSE IF Len(groups) = 1 THEN groups[1]
    ELSE groups[1] \o <<".">> \o Join(Tail(groups))

\* ------------------------------------------------------------ processors
\* cfSuffix[format]; a format the map does not hold gives the empty string
cfSuffix(format) ==
    IF format = "gzip" THEN <<".", "g", "z">>
    ELSE IF format = "zlib" THEN <<".", "z">>
    ELSE <<>>

DefaultProcessor == [kind |-> "default", format |-> "", suffix |-> <<>>,
                     suffixFirst |-> <<>>, suffixLen |-> 0]

Compressor_KeepsFormat(format) ==
    [kind |-> "compressor", format |-> format, suffix |-> cfSuffix(format),
     suffixFirst |-> <<".", "1">> \o cfSuffix(format),
     suffixLen |-> Len(cfSuffix(format))]

\* Compressor(format): a format without a suffix degrades to NoCompress
Compressor(format) ==
    [kind |-> "compressor",
     format |-> IF cfSuffix(format) = <<>> THEN "" ELSE format,
     suffix |-> cfSuffix(format),
     suffixFirst |-> <<".", "1">> \o cfSuffix(format),
     suffixLen |-> Len(cfSuffix(format))]

\* defaultProcessor.incrTailNumber on a spelled-out name
defaultIncrTailNumber(base) ==
    IF Len(base) = 0 THEN base
    ELSE LET ext == Ext(base)
             last == IF Len(ext) > 0 THEN From(ext, 1) ELSE ext
         IN  IF IsNumeric(last)
             THEN SubSeq(base, 1, Len(base) - Len(last) - 1)
                    \o <<".">> \o Itoa(Atoi(last) + 1)
             ELSE base \o <<".">> \o Itoa(1)

\* compressor.incrTailNumber
compressorIncrTailNumber(p, base) ==
    IF Len(base) = 0 THEN base
    ELSE LET groups == Split(base)
             hasSuffix == /\ Len(base) > p.suffixLen
                          /\ From(base, Len(base) - p.suffixLen) = p.suffix
             penultimate == IF hasSuffix /\ Len(groups) >= 3
                            THEN groups[Len(groups) - 1] ELSE <<>>
         IN  IF IsNumeric(penultimate)
             THEN Join(SubSeq(groups, 1, Len(groups) - 2))
                    \o <<".">> \o Itoa(Atoi(penultimate) + 1) \o p.suffix
             ELSE base \o <<".">> \o Itoa(1) \o p.suffix

\* the name each() gives an entry
NewName(p, base) ==
    IF p.kind = "default" \/ p.format = ""
    THEN defaultIncrTailNumber(base)
    ELSE compressorIncrTailNumber(p, base)

\* does each() compress the entry (true) or rename it (false)
Compresses(p, base) ==
    /\ p.kind = "compressor"
    /\ p.format # ""
    /\ NewName(p, base) = base \o p.suffixFirst

\* getCompressWriter returns a nil writer for a format it does not know
HasCompressWriter(format) == format \in {"gzip", "zlib"}

\* each(dir, base) of the configured processor on directory d: a rename, or
\* the entry compressed into the new name (the compressed copy of file i is
\* written -i) and then removed; err when the entry cannot be opened or
\* renamed, panic when the nil compress writer is used
Each(p, d, base) ==
    IF d[base] = 0
    THEN [dir |-> d, err |-> TRUE, panic |-> FALSE]
    ELSE IF ~Compresses(p, base)
    THEN [dir |-> Rename(d, base, NewName(p, base)), err |-> FALSE, panic |-> FALSE]
    ELSE IF ~HasCompressWriter(p.format)
    THEN [dir |-> [d EXCEPT ![NewName(p, base)] = -d[base]], err |-> FALSE,
          panic |-> TRUE]
    ELSE [dir |-> [d EXCEPT ![NewName(p, base)] = -d[base], ![base] = 0],
          err |-> FALSE, panic |-> FALSE]

\* -------------------------------------------------------- the regex matcher
\* NewRegexMatcher's suffix pattern (\.\d+EXT)?$ is kept as the literal EXT
\* that has to follow the digits: none for DefaultMatcher, the format's
\* suffix (its dot escaped) for CompressMatcher.
DefaultMatcher == [ext |-> <<>>, re |-> <<>>]
CompressMatcher(format) == [ext |-> cfSuffix(format), re |-> <<>>]

MatcherInit_Unescaped(m, base) ==
    [m EXCEPT !.re = [k \in 1..Len(base) |-> [any |-> base[k] = ".", c |-> base[k]]]]

\* regexMatcher.Init: "^" + base with every "." replaced by "\." + suffix
\* pattern; the compiled pattern is one atom per character of the base, an
\* escaped dot matching a dot only
MatcherInit(m, base) ==
    [m EXCEPT !.re = [k \in 1..Len(base) |-> [any |-> FALSE, c |-> base[k]]]]

AtomMatches(atom, c) == atom.any \/ atom.c = c

\* \d+ of the suffix pattern
Digits(str) == Len(str) >= 1 /\ \A k \in 1..Len(str) : IsDigit(str[k])

\* (\.\d+EXT)? against what follows the base
OptionalMatches(m, rest) ==
    \/ rest = <<>>
    \/ /\ Len(rest) >= 2 + Len(m.ext)
       /\ rest[1] = "."
       /\ Digits(SubSeq(rest, 2, Len(rest) - Len(m.ext)))
       /\ From(rest, Len(rest) - Len(m.ext)) = m.ext

\* reg.Find: the pattern is anchored at both ends, so the leftmost match is
\* the whole name or there is none (nil)
Find(m, other) ==
    IF /\ Len(other) >= Len(m.re)
       /\ \A k \in 1..Len(m.re) : AtomMatches(m.re[k], other[k])
       /\ OptionalMatches(m, From(other, Len(m.re)))
    THEN other ELSE <<>>

MatcherMatch_SkipsPrefix(m, other) ==
    \/ Len(Find(m, other)) = Len(other)
    \/ Len(other) > 1 /\ Len(Find(m, Tail(other))) = Len(other) - 1

\* regexMatcher.Match
MatcherMatch(m, other) == Len(Find(m, other)) = Len(other)

\* ------------------------------------------------- rollOnce's sort, spelled
\* the comparator of sort.Slice on spelled-out names
LessName(f1, f2) ==
    IF Len(f2) # Len(f1) THEN Len(f2) > Len(f1)
    ELSE LET idx1 == IF LastIndexByte(f1, ".") = -1 THEN 0 ELSE LastIndexByte(f1, ".")
             idx2 == IF LastIndexByte(f2, ".") = -1 THEN 0 ELSE LastIndexByte(f2, ".")
         IN  Atoi(From(f1, idx1 + 1)) < Atoi(From(f2, idx2 + 1))

\* what sort.Slice may return for the set S: it is not stable, so any order
\* without an inversion
SortedNames(S) ==
    {q \in [1..Cardinality(S) -> S] :
        /\ \A i, j \in 1..Cardinality(S) : i # j => q[i] # q[j]
        /\ \A i, j \in 1..Cardinality(S) : i < j => ~LessName(q[j], q[i])}

\* ------------------------------------------------------------ construction
\* baseR + New: the primary file is opened (created empty), the stat reset
\* from it, the check loop started, the default pipeline installed.
Init ==
    /\ dir = [n \in Names |-> IF n = Primary THEN 1 ELSE 0]
    /\ data = [i \in 1..MaxIno |-> <<>>]
    /\ mtime = [i \in 1..MaxIno |-> 0]
    /\ btime = [i \in 1..MaxIno |-> 0]
    /\ nIno = 1
    /\ now = 0
    /\ f = [ino |-> 1, gen |-> 1]
    /\ opened = {1}
    /\ nGen = 1
    /\ st = [rSize |-> 0, birth |-> 0, hasBirth |-> TRUE]
    /\ checkers = DefaultChecker(RollInterval, SizeLimit)
    /\ filters = DefaultFilter(KeepAge, KeepBackups)
    /\ matcher = MatcherInit(DefaultMatcher, BaseName)
    /\ processor = DefaultProcessor
    /\ wLock = "none"
    /\ readers = 0
    /\ checkCh = 0
    /\ rotateCh = 0
    /\ loops = [p \in LoopPcs |-> IF p = "recv" THEN 1 ELSE 0]
    /\ coPending = 0
    /\ wr = [i \in WriteIds |-> IdleWrite]
    /\ nWrites = 0
    /\ proc = [p \in ProcIds |-> IdleProc]
    /\ nProc = 0
    /\ closePc = "idle"
    /\ nClosed = 0
    /\ nCloseCalls = 0
    /\ log = <<>>

\* -------------------------------------------------------------- Roll.Write
InFlight == {i \in WriteIds : wr[i].pc \in {"locked", "appended"}}

\* fWLock (RLock), then r.f is loaded for r.f.Write(p)
RLockFree == wLock = "none"

WriteLock(writers) ==
    /\ nWrites < MaxWrites
    /\ Cardinality(InFlight) < writers
    /\ RLockFree
    /\ nWrites' = nWrites + 1
    /\ readers' = readers + 1
    /\ wr' = [wr EXCEPT ![nWrites + 1] =
                [pc |-> "locked", h |-> f, tmp |-> 0,
                 thr |-> checkChain, res |-> "none", n |-> 0]]
    /\ UNCHANGED <<fsVars, cfgVars, f, opened, nGen, st, wLock, checkCh, rotateCh,
                   loops, coPending, proc, nProc, closeVars, log>>

\* r.f.Write(p): a nil *os.File and a closed one return an error and Write
\* returns (0, err) through the deferred fWUnlock; otherwise the payload is
\* appended and st.update reads rSize.
WriteAppend(i) ==
    /\ wr[i].pc = "locked"
    /\ IF wr[i].h = NilF \/ wr[i].h.gen \notin opened
       THEN /\ wr' = [wr EXCEPT ![i] = [IdleWrite EXCEPT !.pc = "done", !.res = "err"]]
            /\ readers' = readers - 1
            /\ UNCHANGED <<data, mtime, log>>
       ELSE /\ data' = [data EXCEPT ![wr[i].h.ino] = Append(@, i)]
            /\ mtime' = [mtime EXCEPT ![wr[i].h.ino] = now]
            /\ log' = Append(log, i)
            /\ wr' = [wr EXCEPT ![i].pc = "appended", ![i].tmp = st.rSize]
            /\ UNCHANGED readers
    /\ UNCHANGED <<dir, btime, nIno, cfgVars, f, opened, nGen, st, wLock, checkCh,
                   rotateCh, loops, coPending, nWrites, proc, nProc, closeVars>>

\* r.f.Write(p) on an open handle returns (k, err) with k < len(p): the
\* first k bytes of a payload of MaxShort + 1 bytes are in the file (an I/O
\* error such as a full disk).  Write returns (0, err) through the deferred
\* fWUnlock; st.update and go r.checkOnce() are not reached.
WriteAppendFails(i) ==
    /\ wr[i].pc = "locked"
    /\ wr[i].h # NilF /\ wr[i].h.gen \in opened
    /\ \E k \in 0..MaxShort :
         /\ data' = [data EXCEPT ![wr[i].h.ino] = @ \o [j \in 1..k |-> i]]
         /\ mtime' = IF k > 0 THEN [mtime EXCEPT ![wr[i].h.ino] = now] ELSE mtime
         /\ log' = log \o [j \in 1..k |-> i]
    /\ wr' = [wr EXCEPT ![i] = [IdleWrite EXCEPT !.pc = "done", !.res = "err"]]
    /\ readers' = readers - 1
    /\ UNCHANGED <<dir, btime, nIno, cfgVars, f, opened, nGen, st, wLock, checkCh,
                   rotateCh, loops, coPending, nWrites, proc, nProc, closeVars>>

WriteResult_CycleError(i) ==
    IF dir[Primary] = 0 /\ dir[Staging] # 0 THEN "err" ELSE "ok"

\* the error Write returns once the append has gone through: nil
WriteResult(i) == "ok"

\* st.update stores rSize, go r.checkOnce(), return (re, nil), fWUnlock
WriteFinish(i) ==
    /\ wr[i].pc = "appended"
    /\ st' = [st EXCEPT !.rSize = wr[i].tmp + 1]
    /\ coPending' = coPending + 1
    /\ readers' = readers - 1
    /\ wr' = [wr EXCEPT ![i] = [IdleWrite EXCEPT !.pc = "done", !.res = WriteResult(i),
                                                 !.n = 1]]
    /\ UNCHANGED <<fsVars, cfgVars, f, opened, nGen, wLock, checkCh, rotateCh, loops,
                   nWrites, log, proc, nProc, closeVars>>

\* ---------------------------------------------- checkOnce and checkAndRoll
\* checkOnce's select: the send succeeds when a loop is parked in the receive
\* or the buffer has room, and the goroutine then becomes a check loop itself
\* (checkAndRoll ranges over a channel that is never closed).
CheckChHasRoom_Unbuffered(n) == FALSE

\* checkCh is made with room for one signal
CheckChHasRoom(n) == n = 0

CheckOnce ==
    /\ coPending > 0
    /\ coPending' = coPending - 1
    /\ IF loops["parked"] > 0
       THEN /\ loops' = [Move(loops, "parked", "check") EXCEPT !["recv"] = @ + 1]
            /\ UNCHANGED checkCh
       ELSE IF CheckChHasRoom(checkCh)
       THEN /\ checkCh' = 1
            /\ loops' = [loops EXCEPT !["recv"] = @ + 1]
       ELSE UNCHANGED <<checkCh, loops>>
    /\ UNCHANGED <<fsVars, cfgVars, f, opened, nGen, st, lockVars, rotateCh,
                   writeVars, proc, nProc, closeVars>>

\* for range r.checkCh: take a buffered signal or park
LoopRecv ==
    /\ loops["recv"] > 0
    /\ IF checkCh = 1
       THEN /\ checkCh' = 0
            /\ loops' = Move(loops, "recv", "check")
       ELSE /\ loops' = Move(loops, "recv", "parked")
            /\ UNCHANGED checkCh
    /\ UNCHANGED <<fsVars, cfgVars, f, opened, nGen, st, lockVars, rotateCh,
                   coPending, writeVars, proc, nProc, closeVars>>

\* r.checkChain() under the read lock
LoopCheck ==
    /\ loops["check"] > 0
    /\ RLockFree
    /\ loops' = Move(loops, "check", IF checkChain THEN "roll" ELSE "recv")
    /\ UNCHANGED <<fsVars, cfgVars, f, opened, nGen, st, lockVars, checkCh, rotateCh,
                   coPending, writeVars, proc, nProc, closeVars>>

\* --------------------------------------------------- Roll.roll and openNew
WLockFree_IgnoresReaders == wLock = "none"

WLockFree == wLock = "none" /\ readers = 0

CyclePcs == {"readdir", "filter", "process", "rename", "release"}
Cycles == {p \in ProcIds : proc[p].pc \in CyclePcs}

\* fOpLock; a closed Roll returns; openNew's st.reset(r.filePath) stats the
\* primary path and on error roll returns through the deferred fOpUnlock.
RollBegin ==
    /\ loops["roll"] > 0
    /\ WLockFree
    /\ IF f = NilF \/ dir[Primary] = 0
       THEN /\ loops' = Move(loops, "roll", "recv")
            /\ UNCHANGED <<st, wLock>>
       ELSE /\ st' = reset(dir[Primary])
            /\ wLock' = "roll"
            /\ loops' = Move(loops, "roll", "swap")
    /\ UNCHANGED <<fsVars, cfgVars, f, opened, nGen, readers, checkCh, rotateCh,
                   coPending, writeVars, proc, nProc, closeVars>>

\* openNew's closeFile and openFile(r.tmpFilePath) with O_CREATE|O_APPEND,
\* then go r.process() and fOpUnlock.
RollSwap ==
    /\ loops["swap"] > 0
    /\ f.gen \in opened
    /\ LET create == dir[Staging] = 0
           ino == IF create THEN nIno + 1 ELSE dir[Staging]
       IN  /\ dir' = [dir EXCEPT ![Staging] = ino]
           /\ nIno' = IF create THEN nIno + 1 ELSE nIno
           /\ btime' = IF create THEN [btime EXCEPT ![ino] = now] ELSE btime
           /\ mtime' = IF create THEN [mtime EXCEPT ![ino] = now] ELSE mtime
           /\ f' = [ino |-> ino, gen |-> nGen + 1]
    /\ nGen' = nGen + 1
    /\ opened' = (opened \ {f.gen}) \cup {nGen + 1}
    /\ nProc' = nProc + 1
    /\ proc' = [proc EXCEPT ![nProc + 1] =
                  [IdleProc EXCEPT !.pc = "select", !.inflight = (Cycles # {})]]
    /\ wLock' = "none"
    /\ loops' = Move(loops, "swap", "recv")
    /\ UNCHANGED <<data, cfgVars, st, readers, checkCh, rotateCh, coPending,
                   writeVars, closeVars>>

\* openNew with a failing step after the stat.  closeFile returns an error:
\* the descriptor is released all the same and r.f keeps the closed handle
\* (closing a closed handle fails too).  Or os.OpenFile(r.tmpFilePath) returns
\* (nil, err), which openFile stores in r.f after closeFile closed the old
\* handle.  roll returns the error through the deferred fOpUnlock; go
\* r.process() is not reached.
RollSwapFails ==
    /\ loops["swap"] > 0
    /\ \E step \in {"close", "open"} :
         /\ step = "open" => f.gen \in opened
         /\ f' = IF step = "open" THEN NilF ELSE f
    /\ opened' = opened \ {f.gen}
    /\ wLock' = "none"
    /\ loops' = Move(loops, "swap", "recv")
    /\ UNCHANGED <<fsVars, cfgVars, nGen, st, readers, checkCh, rotateCh, coPending,
                   writeVars, proc, nProc, closeVars>>

\* ------------------------------------------------ Roll.process and rollOnce
\* process's select: take the single slot of rotateCh or give up
StartCycle_Unguarded(p) == TRUE

StartCycle(p) == rotateCh = 0

ProcessSelect(p) ==
    /\ proc[p].pc = "select"
    /\ IF StartCycle(p)
       THEN /\ rotateCh' = 1
            /\ proc' = [proc EXCEPT ![p].pc = "readdir"]
       ELSE /\ proc' = [proc EXCEPT ![p] = [IdleProc EXCEPT !.pc = "done"]]
            /\ UNCHANGED rotateCh
    /\ UNCHANGED <<fsVars, cfgVars, f, opened, nGen, st, lockVars, checkCh, loops,
                   coPending, writeVars, nProc, closeVars>>

\* os.ReadDir, the matcher, sort.Slice
Matched(d) == {n \in Names : d[n] # 0 /\ Match(n)}

\* where rollOnce continues once filterChain has returned remains
AfterFilters(p, rem) ==
    [proc[p] EXCEPT !.rem = rem, !.i = Len(rem),
                    !.pc = IF Len(rem) = 0 THEN "rename" ELSE "process"]

CycleReadDir(p) ==
    /\ proc[p].pc = "readdir"
    /\ LET files == SortFiles(Matched(dir))
       IN  proc' = [proc EXCEPT ![p] =
                      IF Len(filters) = 0 THEN AfterFilters(p, files)
                      ELSE [proc[p] EXCEPT !.rem = files, !.k = 1, !.pc = "filter"]]
    /\ UNCHANGED <<fsVars, cfgVars, f, opened, nGen, st, lockVars, checkCh, rotateCh,
                   loops, coPending, writeVars, nProc, closeVars>>

\* filterChain, one stage: Filter, then DealFiltered removes the filtered
\* entries (its error is dropped by filterChain); after the last stage the
\* processor starts at the last entry.
CycleFilter(p) ==
    /\ proc[p].pc = "filter"
    /\ LET res == Filter(filters[proc[p].k], dir, proc[p].rem)
       IN       IF res.panic
                THEN /\ proc' = [proc EXCEPT ![p].pc = "panic"]
                     /\ UNCHANGED dir
                ELSE IF res.err
                THEN /\ proc' = [proc EXCEPT ![p].pc = "release", ![p].rem = <<>>,
                                             ![p].k = 0, ![p].err = "filter"]
                     /\ UNCHANGED dir
                ELSE /\ dir' = RemoveAll(dir, res.removed)
                     /\ proc' = [proc EXCEPT ![p] =
                                   IF proc[p].k = Len(filters)
                                   THEN AfterFilters(p, res.remains)
                                   ELSE [proc[p] EXCEPT !.rem = res.remains,
                                                        !.k = @ + 1]]
    /\ UNCHANGED <<data, mtime, btime, nIno, cfgVars, f, opened, nGen, st, lockVars,
                   checkCh, rotateCh, loops, coPending, writeVars, nProc, closeVars>>

\* baseProcessor.Process, one entry: each() renames remains[i] to its name
\* with the tail number increased; an error ends rollOnce.
CycleProcess(p) ==
    /\ proc[p].pc = "process"
    /\ LET base == proc[p].rem[proc[p].i]
       IN       IF RenameOk(dir, base)
                THEN /\ dir' = Rename(dir, base, incrTailNumber(base))
                     /\ proc' = [proc EXCEPT ![p].i = @ - 1,
                                             ![p].pc = IF proc[p].i = 1 THEN "rename"
                                                       ELSE "process"]
                ELSE /\ proc' = [proc EXCEPT ![p].pc = "release", ![p].rem = <<>>,
                                             ![p].k = 0, ![p].i = 0,
                                             ![p].err = "process"]
                     /\ UNCHANGED dir
    /\ UNCHANGED <<data, mtime, btime, nIno, cfgVars, f, opened, nGen, st, lockVars,
                   checkCh, rotateCh, loops, coPending, writeVars, nProc, closeVars>>

\* os.Rename(r.tmpFilePath, r.filePath)
CycleRename(p) ==
    /\ proc[p].pc = "rename"
    /\ dir' = IF RenameOk(dir, Staging) THEN Rename(dir, Staging, Primary) ELSE dir
    /\ proc' = [proc EXCEPT ![p].pc = "release", ![p].rem = <<>>, ![p].k = 0,
                            ![p].err = IF RenameOk(dir, Staging) THEN "none"
                                       ELSE "rename"]
    /\ UNCHANGED <<data, mtime, btime, nIno, cfgVars, f, opened, nGen, st, lockVars,
                   checkCh, rotateCh, loops, coPending, writeVars, nProc, closeVars>>

CloseWaits_Never == FALSE

\* r.rotateCh <- struct{}{} : blocks while the slot is taken
CloseWaits == rotateCh = 1

CloseSend_NoToken(slot) == slot

\* the slot of rotateCh once Close's send has gone through: Close's token is
\* in it, and nothing ever receives it
CloseSend(slot) == slot + 1

\* the deferred <-r.rotateCh; a Close parked in its send puts its token into
\* the slot in the same step
CycleRelease(p) ==
    /\ proc[p].pc = "release"
    /\ rotateCh = 1
    /\ IF closePc = "parked"
       THEN /\ closePc' = "fin"
            /\ rotateCh' = CloseSend(rotateCh - 1)
       ELSE /\ rotateCh' = rotateCh - 1
            /\ UNCHANGED closePc
    /\ proc' = [proc EXCEPT ![p] = [IdleProc EXCEPT !.pc = "done"]]
    /\ UNCHANGED <<fsVars, cfgVars, f, opened, nGen, st, lockVars, checkCh, loops,
                   coPending, writeVars, nProc, nClosed, nCloseCalls>>

\* -------------------------------------------------------------- Roll.Close

\* fOpLock, then the send on rotateCh: the token goes into the free slot, or
\* Close parks in the send with the lock held
CloseCall(calls) ==
    /\ closePc = "idle"
    /\ nCloseCalls < calls
    /\ WLockFree
    /\ wLock' = "close"
    /\ nCloseCalls' = nCloseCalls + 1
    /\ IF CloseWaits
       THEN /\ closePc' = "parked"
            /\ UNCHANGED rotateCh
       ELSE /\ closePc' = "fin"
            /\ rotateCh' = CloseSend(rotateCh)
    /\ UNCHANGED <<fsVars, cfgVars, f, opened, nGen, st, readers, checkCh,
                   loops, coPending, writeVars, proc, nProc, nClosed>>

CloseBegin == CloseCall(MaxCloses)

\* Close called on a Roll also after an earlier Close has returned
CloseAgain == CloseCall(MaxCloses + 1)

CloseFinish_LeavesOpen ==
    /\ closePc = "fin"
    /\ wLock' = "none"
    /\ closePc' = "idle"
    /\ nClosed' = nClosed + 1
    /\ UNCHANGED <<fsVars, cfgVars, f, opened, nGen, st, readers, checkCh, rotateCh,
                   loops, coPending, writeVars, proc, nProc, nCloseCalls>>

\* closeFile, r.f = nil, fOpUnlock
CloseFinish ==
    /\ closePc = "fin"
    /\ IF f = NilF
       THEN UNCHANGED <<f, opened>>
       ELSE /\ opened' = opened \ {f.gen}
            /\ f' = NilF
    /\ wLock' = "none"
    /\ closePc' = "idle"
    /\ nClosed' = nClosed + 1
    /\ UNCHANGED <<fsVars, cfgVars, nGen, st, readers, checkCh, rotateCh, loops,
                   coPending, writeVars, proc, nProc, nCloseCalls>>

\* ----------------------------------------------------------- specification
Next ==
    \/ WriteLock(MaxWriters)
    \/ \E i \in WriteIds : WriteAppend(i)
    \/ \E i \in WriteIds : WriteFinish(i)
    \/ CheckOnce
    \/ LoopRecv
    \/ LoopCheck
    \/ RollBegin
    \/ RollSwap
    \/ \E p \in ProcIds : ProcessSelect(p)
    \/ \E p \in ProcIds : CycleReadDir(p)
    \/ \E p \in ProcIds : CycleFilter(p)
    \/ \E p \in ProcIds : CycleProcess(p)
    \/ \E p \in ProcIds : CycleRename(p)
    \/ \E p \in ProcIds : CycleRelease(p)
    \/ CloseBegin
    \/ CloseFinish

Spec == Init /\ [][Next]_vars

\* The same Roll driven by one goroutine that calls Write sequentially, as
\* the tests TestNew and TestNewC do.
NextSeq ==
    \/ WriteLock(1)
    \/ \E i \in WriteIds : WriteAppend(i)
    \/ \E i \in WriteIds : WriteFinish(i)
    \/ CheckOnce
    \/ LoopRecv
    \/ LoopCheck
    \/ RollBegin
    \/ RollSwap
    \/ \E p \in ProcIds : ProcessSelect(p)
    \/ \E p \in ProcIds : CycleReadDir(p)
    \/ \E p \in ProcIds : CycleFilter(p)
    \/ \E p \in ProcIds : CycleProcess(p)
    \/ \E p \in ProcIds : CycleRename(p)
    \/ \E p \in ProcIds : CycleRelease(p)
    \/ CloseBegin
    \/ CloseFinish

SpecSeq == Init /\ [][NextSeq]_vars

\* One writer at a time, on a file system where closing the active handle or
\* opening the staging file can fail.
NextSwap ==
    \/ WriteLock(1)
    \/ \E i \in WriteIds : WriteAppend(i)
    \/ \E i \in WriteIds : WriteFinish(i)
    \/ CheckOnce
    \/ LoopRecv
    \/ LoopCheck
    \/ RollBegin
    \/ RollSwap
    \/ RollSwapFails
    \/ \E p \in ProcIds : ProcessSelect(p)
    \/ \E p \in ProcIds : CycleReadDir(p)
    \/ \E p \in ProcIds : CycleFilter(p)
    \/ \E p \in ProcIds : CycleProcess(p)
    \/ \E p \in ProcIds : CycleRename(p)
    \/ \E p \in ProcIds : CycleRelease(p)
    \/ CloseBegin
    \/ CloseFinish

SpecSwap == Init /\ [][NextSwap]_vars

\* The goroutines of the Roll under a fair scheduler: every step of a Write
\* under way, of a checkOnce, of a check loop and of a cycle that can be
\* taken is taken in the end.  Calling Write and Close is up to the caller.
Fairness ==
    /\ WF_vars(\E i \in WriteIds : WriteAppend(i))
    /\ WF_vars(\E i \in WriteIds : WriteFinish(i))
    /\ WF_vars(CheckOnce)
    /\ WF_vars(LoopRecv)
    /\ WF_vars(LoopCheck)
    /\ WF_vars(RollBegin)
    /\ WF_vars(RollSwap)
    /\ WF_vars(\E p \in ProcIds : ProcessSelect(p))
    /\ WF_vars(\E p \in ProcIds : CycleReadDir(p))
    /\ WF_vars(\E p \in ProcIds : CycleFilter(p))
    /\ WF_vars(\E p \in ProcIds : CycleProcess(p))
    /\ WF_vars(\E p \in ProcIds : CycleRename(p))
    /\ WF_vars(\E p \in ProcIds : CycleRelease(p))
    /\ WF_vars(CloseFinish)

SpecLive == Init /\ [][NextSeq]_vars /\ Fairness

\* The same under a caller that may call Close once more.
NextReclose ==
    \/ WriteLock(1)
    \/ \E i \in WriteIds : WriteAppend(i)
    \/ \E i \in WriteIds : WriteFinish(i)
    \/ CheckOnce
    \/ LoopRecv
    \/ LoopCheck
    \/ RollBegin
    \/ RollSwap
    \/ \E p \in ProcIds : ProcessSelect(p)
    \/ \E p \in ProcIds : CycleReadDir(p)
    \/ \E p \in ProcIds : CycleFilter(p)
    \/ \E p \in ProcIds : CycleProcess(p)
    \/ \E p \in ProcIds : CycleRename(p)
    \/ \E p \in ProcIds : CycleRelease(p)
    \/ CloseAgain
    \/ CloseFinish

SpecReclose == Init /\ [][NextReclose]_vars /\ Fairness

\* os.Rename(r.tmpFilePath, r.filePath) returns an error although the staging
\* file exists (an I/O failure): nothing is renamed and rollOnce returns
\* through its deferred receive.
CycleRenameFails(p) ==
    /\ proc[p].pc = "rename"
    /\ RenameOk(dir, Staging)
    /\ proc' = [proc EXCEPT ![p].pc = "release", ![p].rem = <<>>, ![p].k = 0,
                            ![p].err = "rename"]
    /\ UNCHANGED <<fsVars, cfgVars, f, opened, nGen, st, lockVars, checkCh, rotateCh,
                   loops, coPending, writeVars, nProc, closeVars>>

\* The sequentially driven Roll on a file system whose final rename may fail.
NextFail ==
    \/ WriteLock(1)
    \/ \E i \in WriteIds : WriteAppend(i)
    \/ \E i \in WriteIds : WriteFinish(i)
    \/ CheckOnce
    \/ LoopRecv
    \/ LoopCheck
    \/ RollBegin
    \/ RollSwap
    \/ \E p \in ProcIds : ProcessSelect(p)
    \/ \E p \in ProcIds : CycleReadDir(p)
    \/ \E p \in ProcIds : CycleFilter(p)
    \/ \E p \in ProcIds : CycleProcess(p)
    \/ \E p \in ProcIds : CycleRename(p)
    \/ \E p \in ProcIds : CycleRenameFails(p)
    \/ \E p \in ProcIds : CycleRelease(p)
    \/ CloseBegin
    \/ CloseFinish

SpecFail == Init /\ [][NextFail]_vars

\* The Roll driven by sequential Writes whose appends may fail.
NextShort ==
    \/ WriteLock(1)
    \/ \E i \in WriteIds : WriteAppend(i)
    \/ \E i \in WriteIds : WriteAppendFails(i)
    \/ \E i \in WriteIds : WriteFinish(i)
    \/ CheckOnce
    \/ LoopRecv
    \/ LoopCheck
    \/ RollBegin
    \/ RollSwap
    \/ \E p \in ProcIds : ProcessSelect(p)
    \/ \E p \in ProcIds : CycleReadDir(p)
    \/ \E p \in ProcIds : CycleFilter(p)
    \/ \E p \in ProcIds : CycleProcess(p)
    \/ \E p \in ProcIds : CycleRename(p)
    \/ \E p \in ProcIds : CycleRelease(p)
    \/ CloseBegin
    \/ CloseFinish

SpecShort == Init /\ [][NextShort]_vars

\* ------------------------------------- a cycle over an existing directory
\* Filter chains a Roll can be given through WithFilter and NewRollConf: one
\* filter alone, or DefaultFilter's pair.
BackupChoices == (-1..MaxKeep) \cup {KeepBackups}
AgeChoices == -1..MaxNow
FilterChoices ==
    {<<[kind |-> "maxBackups", v |-> n]>> : n \in BackupChoices}
    \cup {<<[kind |-> "maxAge", v |-> a]>> : a \in AgeChoices}
    \cup {DefaultFilter(a, n) : a \in AgeChoices, n \in BackupChoices}

\* backups left in the directory by an earlier run
OldNames == 1..(MaxName - 1)

\* A Roll opened over a directory that holds older backups, after its first
\* Write and the handle swap that the interval checker triggered (the file is
\* older than the interval): the process goroutine is about to run.  The
\* files' modification times are anything up to the present.
InitCycle ==
    /\ \E old \in SUBSET OldNames :
         dir = [n \in Names |-> IF n = Primary THEN 1
                                ELSE IF n = Staging THEN 2
                                ELSE IF n \in old THEN n + 2 ELSE 0]
    /\ data = [i \in 1..MaxIno |-> IF i = 1 THEN <<1>> ELSE <<>>]
    /\ mtime \in {m \in [1..MaxIno -> 0..MaxNow] :
                    /\ m[2] = MaxNow
                    /\ \A i \in 3..MaxIno : (\A n \in Names : dir[n] # i) => m[i] = 0}
    /\ btime = [i \in 1..MaxIno |-> IF i = 2 THEN MaxNow ELSE 0]
    /\ nIno = MaxIno
    /\ now = MaxNow
    /\ f = [ino |-> 2, gen |-> 2]
    /\ opened = {2}
    /\ nGen = 2
    /\ st = [rSize |-> 1, birth |-> 0, hasBirth |-> TRUE]
    /\ checkers = DefaultChecker(RollInterval, SizeLimit)
    /\ filters \in FilterChoices
    /\ matcher = MatcherInit(DefaultMatcher, BaseName)
    /\ processor = DefaultProcessor
    /\ wLock = "none"
    /\ readers = 0
    /\ checkCh = 0
    /\ rotateCh = 0
    /\ loops = [p \in LoopPcs |-> IF p = "recv" THEN 2 ELSE 0]
    /\ coPending = 0
    /\ wr = [i \in WriteIds |->
               IF i = 1 THEN [IdleWrite EXCEPT !.pc = "done", !.res = "ok", !.n = 1]
               ELSE IdleWrite]
    /\ nWrites = 1
    /\ proc = [p \in ProcIds |->
                 IF p = 1 THEN [IdleProc EXCEPT !.pc = "select"] ELSE IdleProc]
    /\ nProc = 1
    /\ closePc = "idle"
    /\ nClosed = 0
    /\ nCloseCalls = 0
    /\ log = <<1>>

NextCycle ==
    \/ \E p \in ProcIds : ProcessSelect(p)
    \/ \E p \in ProcIds : CycleReadDir(p)
    \/ \E p \in ProcIds : CycleFilter(p)
    \/ \E p \in ProcIds : CycleProcess(p)
    \/ \E p \in ProcIds : CycleRename(p)
    \/ \E p \in ProcIds : CycleRelease(p)

SpecCycle == InitCycle /\ [][NextCycle]_vars

\* Another process removes a backup from the directory: what os.ReadDir has
\* listed can be gone when Info() stats it or os.Remove deletes it.
ExternalRemove ==
    /\ \E n \in 1..MaxName :
         /\ dir[n] # 0
         /\ dir' = Remove(dir, n)
    /\ UNCHANGED <<data, mtime, btime, nIno, cfgVars, f, opened, nGen, st, lockVars,
                   checkCh, rotateCh, loops, coPending, writeVars, proc, nProc,
                   closeVars>>

NextShared ==
    \/ \E p \in ProcIds : ProcessSelect(p)
    \/ \E p \in ProcIds : CycleReadDir(p)
    \/ \E p \in ProcIds : CycleFilter(p)
    \/ \E p \in ProcIds : CycleProcess(p)
    \/ \E p \in ProcIds : CycleRename(p)
    \/ \E p \in ProcIds : CycleRelease(p)
    \/ ExternalRemove

\* the cycle in a directory that another process cleans up as well
SpecShared == InitCycle /\ [][NextShared]_vars

\* ------------------------------------------- a Roll with a small MaxBackups
\* NewRollConf with MaxBackups in 0..MaxKeep: baseR + New as in Init, with
\* DefaultFilter's pair built from that number.
InitKeep ==
    /\ dir = [n \in Names |-> IF n = Primary THEN 1 ELSE 0]
    /\ data = [i \in 1..MaxIno |-> <<>>]
    /\ mtime = [i \in 1..MaxIno |-> 0]
    /\ btime = [i \in 1..MaxIno |-> 0]
    /\ nIno = 1
    /\ now = 0
    /\ f = [ino |-> 1, gen |-> 1]
    /\ opened = {1}
    /\ nGen = 1
    /\ st = [rSize |-> 0, birth |-> 0, hasBirth |-> TRUE]
    /\ checkers = DefaultChecker(RollInterval, SizeLimit)
    /\ filters \in {DefaultFilter(KeepAge, n) : n \in 0..MaxKeep}
    /\ matcher = MatcherInit(DefaultMatcher, BaseName)
    /\ processor = DefaultProcessor
    /\ wLock = "none"
    /\ readers = 0
    /\ checkCh = 0
    /\ rotateCh = 0
    /\ loops = [p \in LoopPcs |-> IF p = "recv" THEN 1 ELSE 0]
    /\ coPending = 0
    /\ wr = [i \in WriteIds |-> IdleWrite]
    /\ nWrites = 0
    /\ proc = [p \in ProcIds |-> IdleProc]
    /\ nProc = 0
    /\ closePc = "idle"
    /\ nClosed = 0
    /\ nCloseCalls = 0
    /\ log = <<>>

SpecKeep == InitKeep /\ [][Next]_vars

\* ------------------------------------------ the write and check path alone
\* Checker chains a Roll can be given through WithChecker and NewRollConf.
SizeChoices == -1..SizeLimit
IntervalChoices == -1..RollInterval
CheckerChoices ==
    {<<[kind |-> "maxSize", v |-> m]>> : m \in SizeChoices}
    \cup {<<[kind |-> "interval", v |-> i]>> : i \in IntervalChoices}
    \cup {DefaultChecker(i, m) : i \in IntervalChoices, m \in SizeChoices}

\* A Roll opened over an existing primary file of any size up to the largest
\* threshold, on a platform with or without birth times.
InitCheck ==
    /\ dir = [n \in Names |-> IF n = Primary THEN 1 ELSE 0]
    /\ \E size \in 0..SizeLimit :
         /\ data = [i \in 1..MaxIno |-> IF i = 1 THEN [k \in 1..size |-> 0] ELSE <<>>]
         /\ \E hb \in BOOLEAN : st = [rSize |-> size, birth |-> 0, hasBirth |-> hb]
    /\ mtime = [i \in 1..MaxIno |-> 0]
    /\ btime = [i \in 1..MaxIno |-> 0]
    /\ nIno = 1
    /\ now = 0
    /\ f = [ino |-> 1, gen |-> 1]
    /\ opened = {1}
    /\ nGen = 1
    /\ checkers \in CheckerChoices
    /\ filters = DefaultFilter(KeepAge, KeepBackups)
    /\ matcher = MatcherInit(DefaultMatcher, BaseName)
    /\ processor = DefaultProcessor
    /\ wLock = "none"
    /\ readers = 0
    /\ checkCh = 0
    /\ rotateCh = 0
    /\ loops = [p \in LoopPcs |-> IF p = "recv" THEN 1 ELSE 0]
    /\ coPending = 0
    /\ wr = [i \in WriteIds |-> IdleWrite]
    /\ nWrites = 0
    /\ proc = [p \in ProcIds |-> IdleProc]
    /\ nProc = 0
    /\ closePc = "idle"
    /\ nClosed = 0
    /\ nCloseCalls = 0
    /\ log = <<>>

\* time.Now() moves on
Tick ==
    /\ now < MaxNow
    /\ now' = now + 1
    /\ UNCHANGED <<fsVars, checkers, filters, matcher, processor, f, opened, nGen, st, lockVars, checkCh,
                   rotateCh, loops, coPending, writeVars, proc, nProc, closeVars>>

\* Sequential Writes and the check loops they feed, while the clock runs; a
\* loop whose check said "roll" has not been scheduled further.
NextCheck ==
    \/ WriteLock(1)
    \/ \E i \in WriteIds : WriteAppend(i)
    \/ \E i \in WriteIds : WriteFinish(i)
    \/ CheckOnce
    \/ LoopRecv
    \/ LoopCheck
    \/ Tick

SpecCheck == InitCheck /\ [][NextCheck]_vars

\* Chains of one or two checkers in any order, a failing one among them.
ChainLinks ==
    { [kind |-> "interval", v |-> RollInterval],
      [kind |-> "maxSize", v |-> SizeLimit], FailingChecker }
ChainChoices == {<<c>> : c \in ChainLinks} \cup {<<c, d>> : c, d \in ChainLinks}

\* A Roll built by NewC over an existing primary file and given one of these
\* chains through WithChecker.
InitChain ==
    /\ dir = [n \in Names |-> IF n = Primary THEN 1 ELSE 0]
    /\ \E size \in 0..SizeLimit :
         /\ data = [i \in 1..MaxIno |-> IF i = 1 THEN [k \in 1..size |-> 0] ELSE <<>>]
         /\ \E hb \in BOOLEAN : st = [rSize |-> size, birth |-> 0, hasBirth |-> hb]
    /\ mtime = [i \in 1..MaxIno |-> 0]
    /\ btime = [i \in 1..MaxIno |-> 0]
    /\ nIno = 1
    /\ now = 0
    /\ f = [ino |-> 1, gen |-> 1]
    /\ opened = {1}
    /\ nGen = 1
    /\ checkers \in ChainChoices
    /\ filters = <<>>
    /\ matcher = MatcherInit(DefaultMatcher, BaseName)
    /\ processor = DefaultProcessor
    /\ wLock = "none"
    /\ readers = 0
    /\ checkCh = 0
    /\ rotateCh = 0
    /\ loops = [p \in LoopPcs |-> IF p = "recv" THEN 1 ELSE 0]
    /\ coPending = 0
    /\ wr = [i \in WriteIds |-> IdleWrite]
    /\ nWrites = 0
    /\ proc = [p \in ProcIds |-> IdleProc]
    /\ nProc = 0
    /\ closePc = "idle"
    /\ nClosed = 0
    /\ nCloseCalls = 0
    /\ log = <<>>

SpecChain == InitChain /\ [][NextCheck]_vars

\* ------------------------------------- a cycle over names spelled out
\* Entries a log directory may hold besides the primary and the staging
\* file: backups of the family with and without a compression suffix, and
\* names of other files.
MaxEntries == 2

FamilyPool ==
    << BaseName \o <<".", "1">>, BaseName \o <<".", "2">>,
      BaseName \o <<".", "0", "1">>, BaseName \o <<".", "9">>,
      BaseName \o <<".", "1", "0">>,
      BaseName \o <<".", "1", ".", "g", "z">>,
      BaseName \o <<".", "2", ".", "g", "z">>,
      BaseName \o <<".", "1", ".", "z">> >>

OtherPool ==
    << <<"o", ".", "l">>, BaseName \o <<".", "x">>, <<"x">> \o BaseName,
      BaseName \o <<"x">>, <<"a", "x", "l">>, BaseName \o <<".">>,
      BaseName \o <<".", "1", "x">>, BaseName \o <<".", "g", "z">>,
      BaseName \o <<".", "1", ".", "g", "z", ".", "x">> >>

PoolSeq == FamilyPool \o OtherPool
NamePool == {PoolSeq[k] : k \in 1..Len(PoolSeq)}

\* the matchers and processors WithMatcher, WithProcessor and Compress give
MatcherChoices ==
    { MatcherInit(DefaultMatcher, BaseName),
      MatcherInit(CompressMatcher("gzip"), BaseName),
      MatcherInit(CompressMatcher("zlib"), BaseName) }

ProcessorChoices ==
    { DefaultProcessor, Compressor("gzip"), Compressor("zlib"),
      Compressor("no support") }

\* the filter chains of these Rolls: none, or MaxBackupsFilter alone
NameFilterChoices ==
    {<<>>} \cup {<<[kind |-> "maxBackups", v |-> n]>> : n \in 0..(MaxEntries - 1)}

\* every name a cycle over the pool can touch
NameSpace ==
    LET step(S) == S \cup {NewName(p, n) : p \in ProcessorChoices, n \in S}
    IN  step(NamePool \cup {BaseName, TmpName})

\* the file behind a name of the pool
PoolIno(n) == 2 + (CHOOSE k \in 1..Len(PoolSeq) : PoolSeq[k] = n)

\* A Roll built by NewC with a matcher, a processor and a filter chain, over a
\* directory that holds entries of the pool, after its first Write and the
\* handle swap: the process goroutine is about to run.
InitNames ==
    /\ \E ents \in {e \in SUBSET NamePool : Cardinality(e) <= MaxEntries} :
         dir = [n \in NameSpace |-> IF n = BaseName THEN 1
                                    ELSE IF n = TmpName THEN 2
                                    ELSE IF n \in ents THEN PoolIno(n) ELSE 0]
    /\ data = [i \in 1..MaxIno |-> IF i = 1 THEN <<1>> ELSE <<>>]
    /\ mtime = [i \in 1..MaxIno |-> 0]
    /\ btime = [i \in 1..MaxIno |-> 0]
    /\ nIno = MaxIno
    /\ now = 0
    /\ f = [ino |-> 2, gen |-> 2]
    /\ opened = {2}
    /\ nGen = 2
    /\ st = [rSize |-> 1, birth |-> 0, hasBirth |-> TRUE]
    /\ checkers = <<>>
    /\ filters \in NameFilterChoices
    /\ matcher \in MatcherChoices
    /\ processor \in ProcessorChoices
    /\ wLock = "none"
    /\ readers = 0
    /\ checkCh = 0
    /\ rotateCh = 0
    /\ loops = [p \in LoopPcs |-> IF p = "recv" THEN 2 ELSE 0]
    /\ coPending = 0
    /\ wr = [i \in WriteIds |->
               IF i = 1 THEN [IdleWrite EXCEPT !.pc = "done", !.res = "ok", !.n = 1]
               ELSE IdleWrite]
    /\ nWrites = 1
    /\ proc = [p \in ProcIds |->
                 IF p = 1 THEN [IdleProc EXCEPT !.pc = "select"] ELSE IdleProc]
    /\ nProc = 1
    /\ closePc = "idle"
    /\ nClosed = 0
    /\ nCloseCalls = 0
    /\ log = <<1>>

\* os.ReadDir, the matcher, sort.Slice
NameReadDir(p) ==
    /\ proc[p].pc = "readdir"
    /\ \E files \in SortedNames({n \in DOMAIN dir : dir[n] # 0 /\ MatcherMatch(matcher, n)}) :
         proc' = [proc EXCEPT ![p] =
                    IF Len(filters) = 0 THEN AfterFilters(p, files)
                    ELSE [proc[p] EXCEPT !.rem = files, !.k = 1, !.pc = "filter"]]
    /\ UNCHANGED <<fsVars, cfgVars, f, opened, nGen, st, lockVars, checkCh, rotateCh,
                   loops, coPending, writeVars, nProc, closeVars>>

\* baseProcessor.Process, one entry, with the configured processor's each()
NameProcess(p) ==
    /\ proc[p].pc = "process"
    /\ LET eff == Each(processor, dir, proc[p].rem[proc[p].i])
       IN  /\ dir' = eff.dir
           /\ proc' = [proc EXCEPT ![p] =
                         IF eff.panic THEN [proc[p] EXCEPT !.pc = "panic"]
                         ELSE IF eff.err
                         THEN [proc[p] EXCEPT !.pc = "release", !.rem = <<>>,
                                              !.k = 0, !.i = 0, !.err = "process"]
                         ELSE [proc[p] EXCEPT !.i = @ - 1,
                                  !.pc = IF proc[p].i = 1 THEN "rename"
                                         ELSE "process"]]
    /\ UNCHANGED <<data, mtime, btime, nIno, cfgVars, f, opened, nGen, st, lockVars,
                   checkCh, rotateCh, loops, coPending, writeVars, nProc, closeVars>>

\* os.Rename(r.tmpFilePath, r.filePath)
NameRename(p) ==
    /\ proc[p].pc = "rename"
    /\ dir' = IF dir[TmpName] # 0 THEN Rename(dir, TmpName, BaseName) ELSE dir
    /\ proc' = [proc EXCEPT ![p].pc = "release", ![p].rem = <<>>, ![p].k = 0,
                            ![p].err = IF dir[TmpName] # 0 THEN "none" ELSE "rename"]
    /\ UNCHANGED <<data, mtime, btime, nIno, cfgVars, f, opened, nGen, st, lockVars,
                   checkCh, rotateCh, loops, coPending, writeVars, nProc, closeVars>>

NextNames ==
    \/ \E p \in ProcIds : ProcessSelect(p)
    \/ \E p \in ProcIds : NameReadDir(p)
    \/ \E p \in ProcIds : CycleFilter(p)
    \/ \E p \in ProcIds : NameProcess(p)
    \/ \E p \in ProcIds : NameRename(p)
    \/ \E p \in ProcIds : CycleRelease(p)

SpecNames == InitNames /\ [][NextNames]_vars

TypeOK ==
    /\ rotateCh \in 0..1
    /\ checkCh \in 0..1
    /\ nIno \in 1..MaxIno
    /\ readers \in 0..MaxWriters

\* ================================================================== claims
Content(name) == IF dir[name] = 0 THEN <<>> ELSE data[dir[name]]

RECURSIVE BackupsDown(_)
BackupsDown(k) == IF k < 1 THEN <<>> ELSE Content(k) \o BackupsDown(k - 1)

\* backups from the highest suffix down to .1, the primary file, the staging file
Stream == BackupsDown(MaxName) \o Content(Primary) \o Content(Staging)

RECURSIVE BytesUpTo(_)
BytesUpTo(k) == IF k < Primary THEN 0 ELSE Len(Content(k)) + BytesUpTo(k - 1)

\* the configured filters remove nothing from any backlog the bounds allow
RemoveNothing ==
    \A j \in 1..Len(filters) :
        IF filters[j].kind = "maxBackups" THEN filters[j].v > MaxName
        ELSE filters[j].v > now

Backups == {n \in 1..MaxName : dir[n] # 0}

\* every Write has returned, every check and every cycle has finished
Quiescent ==
    /\ InFlight = {}
    /\ coPending = 0
    /\ checkCh = 0
    /\ loops["recv"] = 0 /\ loops["check"] = 0 /\ loops["roll"] = 0 /\ loops["swap"] = 0
    /\ \A p \in ProcIds : proc[p].pc \in {"none", "done"}

\* C1: with filters that remove nothing, the backups read from the highest
\* suffix down to .1, then the primary file, then the staging file, hold
\* exactly the payloads appended by Write, in the order they were appended.
C1_StreamPreserved == RemoveNothing => Stream = log

\* C1 witness: all writes done, a rotation has happened, and there are
\* payloads on both sides of the rotation boundary.
C1_Witness ==
    /\ RemoveNothing
    /\ Len(log) = MaxWrites
    /\ dir[1] # 0 /\ Len(Content(1)) > 0
    /\ dir[Primary] # 0 /\ Len(Content(Primary)) > 0

\* C2 (as claimed): once every Write has returned and every cycle has
\* finished, the primary file and the rotated backups together hold as many
\* payloads as were submitted to Write.
C2_AllBytesInPrimaryAndBackups ==
    (Quiescent /\ nCloseCalls = 0 /\ RemoveNothing) => BytesUpTo(MaxName) = nWrites

\* C3: at most one execution of rollOnce is in progress.
C3_OneCycle == Cardinality(Cycles) <= 1

\* C3 witness: a cycle is in progress while another process goroutine is
\* about to run its select.
C3_Witness ==
    /\ Cardinality(Cycles) = 1
    /\ \E p \in ProcIds : proc[p].pc = "select"

\* C4: while a Write holds the read lock (from loading r.f to its return) the
\* handle it loaded stays the Roll's handle and stays open: no swap and no
\* Close happens in between, so the payload goes to one file through an open
\* handle.
C4_WriteSeesOneHandle ==
    \A i \in WriteIds :
        wr[i].pc \in {"locked", "appended"} =>
            /\ wr[i].h = f
            /\ (f # NilF => f.gen \in opened)

\* C4 witness: a Write has loaded an open handle and not yet appended while a
\* check loop that decided to roll is waiting for the operation lock.
C4_Witness ==
    /\ \E i \in WriteIds : wr[i].pc = "locked" /\ wr[i].h # NilF
    /\ loops["roll"] > 0

\* C5 (as claimed): with sequential Writes a file is rotated out only after
\* it reached maxSize, so every backup holds at least maxSize payload units.
C5_RotatedFilesReachedMaxSize ==
    \A n \in Backups : Len(Content(n)) >= SizeLimit

\* C6 (as claimed): a Write called while the checker chain would trigger
\* lands in a freshly swapped-in file, so the file that received its payload
\* holds at most maxSize units.
C6_WriteAtThresholdGoesToNewFile ==
    \A i \in WriteIds :
        (wr[i].pc = "appended" /\ wr[i].thr) => Len(data[wr[i].h.ino]) <= SizeLimit

\* C7 (as claimed): while the Roll is not closed exactly one handle is open
\* and its file is the one at the primary path or the one at the staging path.
C7_HandleAtPrimaryOrStaging ==
    (nCloseCalls = 0) =>
        /\ Cardinality(opened) = 1
        /\ f # NilF
        /\ f.gen \in opened
        /\ (dir[Primary] = f.ino \/ dir[Staging] = f.ino)

\* C8: once a Close has returned, no process goroutine that runs its select
\* starts a cycle, and the directory is not changed any more.
C8_NoCycleAfterClose ==
    [][nClosed >= 1 =>
         /\ \A p \in ProcIds : proc[p].pc = "select" => proc'[p].pc \notin CyclePcs
         /\ dir' = dir]_vars

\* C8 witness: Close has returned and a process goroutine has still to run
\* its select.
C8_Witness == nClosed >= 1 /\ \E p \in ProcIds : proc[p].pc = "select"

\* C9: while a cycle is in progress Close is not past its send on rotateCh:
\* it has neither closed the handle nor returned.
C9_CloseDrainsCycle == Cycles # {} => closePc # "fin"

\* C9 witness: Close is parked in its send while a cycle is in progress and
\* the handle is still open.
C9_Witness == closePc = "parked" /\ Cycles # {} /\ f # NilF /\ f.gen \in opened

\* C10 (as claimed): a process goroutine spawned by a trigger that arrived
\* while a cycle was in flight never runs a cycle of its own.
C10_TriggerInFlightDropped ==
    \A p \in ProcIds : proc[p].inflight => proc[p].pc \notin CyclePcs

\* position of a payload in the order of appends
Pos(x) == CHOOSE k \in 1..Len(log) : log[k] = x

Range(q) == {q[k] : k \in 1..Len(q)}

\* every payload of q1 was appended before every payload of q2
AllBefore(q1, q2) == \A x \in Range(q1), y \in Range(q2) : Pos(x) < Pos(y)

\* C11 (as claimed): of two backups the one with the higher suffix holds the
\* older payloads, and every payload in a backup is older than every payload
\* in the file the handle appends to.
C11_BackupsOrderedByAge ==
    /\ \A i, j \in Backups : i < j => AllBefore(Content(j), Content(i))
    /\ (f # NilF /\ f.gen \in opened) =>
           \A n \in Backups : AllBefore(Content(n), data[f.ino])

\* C12 (as claimed): with no cycle in progress, no process goroutine waiting
\* to start one and no swap under way, the staging file does not exist and
\* the handle appends to the file at the primary path.
C12_StagingOnlyMidRotation ==
    (/\ nCloseCalls = 0
     /\ Cycles = {}
     /\ \A p \in ProcIds : proc[p].pc # "select"
     /\ loops["swap"] = 0)
    => (dir[Staging] = 0 /\ f # NilF /\ dir[Primary] = f.ino)

\* a cycle has renamed the old primary away and ended without renaming the
\* staging file into place, and nothing is running that would do it
Stuck ==
    /\ dir[Primary] = 0
    /\ dir[Staging] # 0
    /\ f # NilF /\ dir[Staging] = f.ino
    /\ Cycles = {}
    /\ \A p \in ProcIds : proc[p].pc # "select"

\* C13 (as claimed): when a rotation trigger is handled after a cycle failed
\* between the two renames, roll goes on to openNew and starts a process
\* goroutine, whose cycle can rename the staging file into the primary path.
C13_FailedCycleRetried ==
    [][(Stuck /\ loops["roll"] > 0 /\ loops'["roll"] = loops["roll"] - 1)
         => loops'["swap"] = loops["swap"] + 1]_vars

\* the filter stage a cycle is about to run
Stage(p) == filters[proc[p].k]
AtStage(p, kind) == proc[p].pc = "filter" /\ Stage(p).kind = kind

\* the names a step has removed from the directory
Removed == {n \in Names : dir[n] # 0 /\ dir'[n] = 0}

\* C15: a MaxBackups stage with N >= 0 keeps the first min(N, len) entries in
\* input order and marks exactly the rest for removal, in input order; the
\* cycle goes on with the kept entries and the rest is deleted.
C15_MaxBackupsKeepsFirstN ==
    [][\A p \in ProcIds :
         (AtStage(p, "maxBackups") /\ Stage(p).v >= 0 /\ proc'[p] # proc[p]) =>
            LET files == proc[p].rem
                keep == min(Stage(p).v, Len(files))
                res == maxBackupsFilter(Stage(p).v, files)
            IN  /\ Len(res.remains) = keep
                /\ res.remains \o res.removed = files
                /\ ~res.err
                /\ proc'[p].pc # "panic"
                /\ proc'[p].rem = SubSeq(files, 1, keep)
                /\ Removed = {files[k] : k \in (keep + 1)..Len(files)}]_vars

\* C15 witness: MaxBackups = 2 alone has run over three entries: two are
\* kept for the processor and the third, app.log.2, is gone.
C15_Witness ==
    /\ filters = <<[kind |-> "maxBackups", v |-> 2]>>
    /\ \E p \in ProcIds : proc[p].pc = "process" /\ proc[p].rem = <<Primary, 1>>
    /\ dir[2] = 0 /\ dir[1] # 0

\* C16 (as claimed): a MaxBackups stage with a negative N returns the whole
\* input as remains, removes nothing, returns no error, and the cycle goes on
\* to the processor.
C16_NegativeMaxBackupsUnbounded ==
    \A p \in ProcIds :
        /\ proc[p].pc # "panic"
        /\ (AtStage(p, "maxBackups") /\ Stage(p).v < 0) =>
              LET res == maxBackupsFilter(Stage(p).v, proc[p].rem)
              IN  /\ ~res.panic
                  /\ ~res.err
                  /\ res.remains = proc[p].rem
                  /\ res.removed = <<>>

\* C17 (as claimed): a MaxAge stage with maxAge <= 0 passes its whole input
\* on as remains and removes nothing.
C17_NonPositiveMaxAgeDisabled ==
    \A p \in ProcIds :
        (AtStage(p, "maxAge") /\ Stage(p).v <= 0) =>
            LET res == maxAgeFilter(dir, Stage(p).v, proc[p].rem)
            IN  /\ ~res.err
                /\ res.remains = proc[p].rem
                /\ res.removed = <<>>

\* age of the file at a name
Age(n) == now - mtime[dir[n]]

\* 1-based index of the first entry that is at least maxAge old, Len + 1 if
\* there is none
FirstAtLeast(files, maxAge) ==
    LET S == {k \in 1..Len(files) : Age(files[k]) >= maxAge}
    IN  IF S = {} THEN Len(files) + 1 ELSE CHOOSE k \in S : \A j \in S : k <= j

\* the same for the first entry modified before now - maxAge
FirstOlder(files, maxAge) ==
    LET S == {k \in 1..Len(files) : mtime[dir[files[k]]] < now - maxAge}
    IN  IF S = {} THEN Len(files) + 1 ELSE CHOOSE k \in S : \A j \in S : k <= j

\* what a MaxAge stage does when it cuts its input at index k
AgeStageCutsAt(p, k) ==
    LET files == proc[p].rem
        res == maxAgeFilter(dir, Stage(p).v, files)
    IN  /\ ~res.err
        /\ res.remains = SubSeq(files, 1, k - 1)
        /\ res.removed = SubSeq(files, k, Len(files))
        /\ proc'[p].rem = SubSeq(files, 1, k - 1)
        /\ Removed = {files[j] : j \in k..Len(files)}

\* C18 (as claimed): a MaxAge stage with maxAge > 0 cuts its input at the
\* first entry whose modification time is older than now - maxAge.
C18_MaxAgeCutsAtFirstOlder ==
    [][\A p \in ProcIds :
         (AtStage(p, "maxAge") /\ Stage(p).v > 0 /\ proc'[p] # proc[p]) =>
            AgeStageCutsAt(p, FirstOlder(proc[p].rem, Stage(p).v))]_vars

\* C18 (amended): a MaxAge stage with maxAge > 0 cuts its input at the first
\* entry whose age now - modTime is at least maxAge, whatever the ages of the
\* entries after it: the entries before it are the remains, that entry and
\* all after it are removed.
C18_MaxAgeCutsAtFirstAtLeast ==
    [][\A p \in ProcIds :
         (AtStage(p, "maxAge") /\ Stage(p).v > 0 /\ proc'[p] # proc[p]) =>
            AgeStageCutsAt(p, FirstAtLeast(proc[p].rem, Stage(p).v))]_vars

\* C18 witness: a MaxAge stage alone has run and has removed an entry that
\* is younger than maxAge, because it came after an older one.
C18_Witness ==
    /\ Len(filters) = 1 /\ filters[1].kind = "maxAge" /\ filters[1].v > 0
    /\ \E p \in ProcIds : proc[p].pc \in {"process", "rename"}
    /\ \E i \in 3..MaxIno :
          /\ \A n \in Names : dir[n] # i
          /\ now - mtime[i] < filters[1].v

\* the MaxBackups values of the configured chain
KeepNs == {filters[j].v : j \in {k \in 1..Len(filters) : filters[k].kind = "maxBackups"}}

\* no cycle is between its directory scan and its last rename
NoCycleAtWork ==
    \A p \in ProcIds : proc[p].pc \notin {"readdir", "filter", "process", "rename"}

\* C14: with MaxBackups = N >= 0 and MaxAge not reached, whenever no cycle is
\* at work (so after every completed cycle) at most N backups exist; with
\* N = 0 there is none.
C14_AtMostNBackups ==
    NoCycleAtWork => \A n \in KeepNs : n >= 0 => Cardinality(Backups) <= n

\* C14 witness: with MaxBackups = 1 a cycle has finished its work, one backup
\* exists, and a file that held payloads has been deleted.
C14_Witness ==
    /\ KeepNs = {1}
    /\ \E p \in ProcIds : proc[p].pc = "release"
    /\ Cardinality(Backups) = 1
    /\ \E i \in 1..nIno : data[i] # <<>> /\ \A n \in Names : dir[n] # i

\* a check loop finishes its checkChain in this step, and says "roll"
Checked == loops["check"] > 0 /\ loops'["check"] = loops["check"] - 1
SaidRoll == loops'["roll"] = loops["roll"] + 1

OnlyChecker(kind) == Len(checkers) = 1 /\ checkers[1].kind = kind

IntervalVerdict(due(_)) ==
    /\ \A j \in 1..Len(checkers) :
          checkers[j].kind = "interval" =>
             (Check(checkers[j], st) <=>
                 (checkers[j].v > 0 /\ st.hasBirth /\ due(checkers[j].v)))
    /\ OnlyChecker("interval") =>
          (SaidRoll <=> (checkers[1].v > 0 /\ st.hasBirth /\ due(checkers[1].v)))

DueAtInterval(interval) == now - st.birth >= interval
DueAfterInterval(interval) == now - st.birth > interval

\* C20 (as claimed): the interval checker says "roll" exactly when
\* interval > 0, the birth time is present and now - birthTime >= interval.
C20_IntervalCheckerAtInterval ==
    [][Checked => IntervalVerdict(DueAtInterval)]_vars

\* C20 (amended): the interval checker says "roll" exactly when interval > 0,
\* the birth time is present and now - birthTime > interval; at the instant
\* where now - birthTime equals interval, with interval <= 0 and without a
\* birth time it says "no roll".
C20_IntervalCheckerAfterInterval ==
    [][Checked => IntervalVerdict(DueAfterInterval)]_vars

\* C20 witness: the interval checker alone has said "roll", the file being
\* older than the interval.
C20_Witness ==
    /\ OnlyChecker("interval")
    /\ loops["roll"] > 0
    /\ st.hasBirth
    /\ now - st.birth > checkers[1].v

\* ---------------------------------------------------------------- matcher
\* runs of one or two decimal digits
DigitRuns ==
    {<<DigitChars[i]>> : i \in 1..Len(DigitChars)}
    \cup {<<DigitChars[i], DigitChars[j]>> : i, j \in 1..Len(DigitChars)}

\* the family of the base name: the base name itself and the base name
\* followed by .<digits> and the extension
Family(ext) == {BaseName} \cup {BaseName \o <<".">> \o ds \o ext : ds \in DigitRuns}

GzExt == <<".", "g", "z">>

\* the names the scan of this step has kept
Scanned(p) == Range(proc'[p].rem)

ScanStep(p) == proc[p].pc = "readdir" /\ proc'[p].pc # "readdir"

DefaultNames == matcher.ext = <<>> /\ processor = DefaultProcessor

\* the entry the processor handles in this step
Entry(p) == proc[p].rem[proc[p].i]

\* the entries the processor has not handled yet
Unprocessed(p) == {proc[p].rem[j] : j \in 1..(proc[p].i - 1)}

\* the name with its numeric suffix increased by one, .1 without a suffix
Bumped(n) ==
    IF n = BaseName THEN BaseName \o <<".", "1">>
    ELSE BaseName \o <<".">> \o Itoa(Atoi(From(n, Len(BaseName) + 1)) + 1)

\* C22: in the default configuration every step of the processor renames its
\* entry to the name with the numeric suffix increased by one (.1 without a
\* suffix); the new name is not the name of an entry still to be processed,
\* and every other file in the directory keeps its name, so that no backup
\* is overwritten.
C22_RenamesNeverCollide ==
    [][\A p \in ProcIds :
         (proc[p].pc = "process" /\ DefaultNames /\ proc'[p] # proc[p]) =>
            /\ dir'[Bumped(Entry(p))] = dir[Entry(p)]
            /\ Bumped(Entry(p)) \notin Unprocessed(p)
            /\ \A n \in DOMAIN dir :
                 (n # Entry(p) /\ dir[n] # 0) => dir'[n] = dir[n]]_vars

\* a Compressor built with a format that has no suffix in cfSuffix
Degraded == processor.kind = "compressor" /\ processor.suffix = <<>>

\* C23: a Compressor built with an unrecognized format does in every step
\* what the default processor does: the entry is renamed to the name the
\* default processor gives it, nothing is compressed, and the step fails
\* only where the default processor's would.
C23_UnknownFormatIsDefault ==
    [][\A p \in ProcIds :
         (proc[p].pc = "process" /\ Degraded /\ proc'[p] # proc[p]) =>
            /\ dir' = Each(DefaultProcessor, dir, Entry(p)).dir
            /\ dir'[defaultIncrTailNumber(Entry(p))] = dir[Entry(p)]
            /\ \A n \in DOMAIN dir : dir'[n] >= 0
            /\ proc'[p].pc # "panic"
            /\ (proc'[p].pc = "release") = Each(DefaultProcessor, dir, Entry(p)).err]_vars

\* C23 witness: the degraded Compressor has renamed a.l.1 to a.l.2 and the
\* primary to a.l.1, and the cycle is about to rename the staging file.
C23_Witness ==
    /\ Degraded
    /\ dir[BaseName] = 0
    /\ dir[BaseName \o <<".", "1">>] = 1
    /\ dir[BaseName \o <<".", "2">>] = PoolIno(BaseName \o <<".", "1">>)
    /\ \E p \in ProcIds : proc[p].pc = "rename"

\* ------------------------------------------------------------ Write's result
\* the Write that fails in this step
FailsNow(i) == wr[i].pc = "locked" /\ wr'[i].pc = "done" /\ wr'[i].res = "err"

\* C24: a Write whose append fails after k bytes returns (k, err) and the
\* cached size grows by k.
C24_FailedWriteReportsBytes ==
    [][\A i \in WriteIds :
         FailsNow(i) =>
            /\ wr'[i].n = Len(log') - Len(log)
            /\ st'.rSize = st.rSize + (Len(log') - Len(log))]_vars

\* C25: as long as the Roll has not been closed, so that the append to the
\* active handle goes through, every Write returns (len(p), nil), whatever
\* swaps and cycles have failed in between.
C25_WriteNeverSeesCycleErrors ==
    \A i \in WriteIds :
        (wr[i].pc = "done" /\ nCloseCalls = 0) => (wr[i].res = "ok" /\ wr[i].n = 1)

\* C25 witness: the final rename of a cycle has failed, leaving the staging
\* file without a primary, and a Write into the staging file has returned
\* (len(p), nil).
C25_Witness ==
    /\ nCloseCalls = 0
    /\ NoCycleAtWork
    /\ dir[Primary] = 0 /\ dir[Staging] # 0
    /\ \E i \in WriteIds :
         /\ wr[i].pc = "done" /\ wr[i].res = "ok"
         /\ i \in Range(data[dir[Staging]])

\* ---------------------------------------------------------------- FileStat
\* no reset since construction: no swap has started
NoResetYet == loops["swap"] = 0 /\ nProc = 0

\* the Writes that have returned (len(p), nil)
Returned == {i \in WriteIds : wr[i].pc = "done" /\ wr[i].res = "ok"}

\* C26: with no Write in flight and no reset since construction (where the
\* size read was 0), the cached size is the sum of the byte counts the
\* Writes have returned, also when Writes overlap.
C26_SizeIsSumOfWrites ==
    (NoResetYet /\ InFlight = {}) => st.rSize = Cardinality(Returned)

\* C27: whenever no Write is in progress and no swap or Close holds the lock,
\* the cached size is the length of the file the active handle appends to;
\* after a swap that is the new staging file.
C27_SizeDescribesActiveFile ==
    (InFlight = {} /\ wLock = "none" /\ f # NilF) => st.rSize = Len(data[f.ino])

\* ------------------------------------------------------ the operation lock
\* a cycle is between its first processor rename and its final rename
MidRenames ==
    \E p \in ProcIds :
        \/ proc[p].pc = "process" /\ proc[p].i < Len(proc[p].rem)
        \/ proc[p].pc = "rename"

\* C28: while a cycle is between the start of its processor renames and the
\* completion of the rename of the staging file into the primary path, no
\* Write appends, no handle is swapped and no Close closes the handle.
C28_RenamesExcludeWriters ==
    [][MidRenames => (log' = log /\ f' = f /\ opened' = opened)]_vars

\* -------------------------------------------------------- errors of a cycle
\* what Filter returns for the stage the cycle is at
StageResult(p) == Filter(Stage(p), dir, proc[p].rem)

\* os.Remove fails on an entry the stage has marked for removal
RemovalFails(p) == \E n \in Range(StageResult(p).removed) : dir[n] = 0

\* the cycle takes this step
Steps(p) == proc'[p] # proc[p]

\* C29: an error at a step of the cycle aborts it: after a Filter error, a
\* failed deletion of removed entries or a failed processor rename the cycle
\* goes to its end with that error, and does not rename the staging file.
C29_AnyErrorAbortsCycle ==
    [][\A p \in ProcIds :
         /\ (Steps(p) /\ proc[p].pc = "filter" /\ ~StageResult(p).panic
               /\ (StageResult(p).err \/ RemovalFails(p)))
              => (proc'[p].pc = "release" /\ proc'[p].err = "filter")
         /\ (Steps(p) /\ proc[p].pc = "process" /\ dir[Entry(p)] = 0)
              => (proc'[p].pc = "release" /\ proc'[p].err = "process")]_vars

\* the MaxAge stage the cycle is at reaches, before any entry old enough to
\* be cut, an entry that is gone from the directory
StatFails(p) ==
    /\ AtStage(p, "maxAge")
    /\ Stage(p).v > 0
    /\ \E j \in 1..Len(proc[p].rem) :
         /\ dir[proc[p].rem[j]] = 0
         /\ \A m \in 1..(j - 1) :
              /\ dir[proc[p].rem[m]] # 0
              /\ now - mtime[dir[proc[p].rem[m]]] < Stage(p).v

\* C30: when a filter stage cannot stat an entry the chain stops with that
\* error: the stage deletes nothing, what earlier stages have deleted stays
\* deleted, and the cycle does nothing more than end: no later stage, no
\* processor, no final rename.
C30_StatErrorStopsChain ==
    [][\A p \in ProcIds :
         /\ (Steps(p) /\ StatFails(p)) =>
               (dir' = dir /\ proc'[p].pc = "release" /\ proc'[p].err = "filter")
         /\ (Steps(p) /\ proc[p].pc = "release" /\ proc[p].err = "filter") =>
               (dir' = dir /\ proc'[p].pc = "done")]_vars

\* C30 witness: under a MaxBackups stage followed by a MaxAge stage the cycle
\* has stopped with the error of the filter chain; both older backups are
\* gone from the directory, the primary and the staging file are in place.
C30_Witness ==
    /\ Len(filters) = 2
    /\ filters[1].v = MaxName - 1
    /\ dir[Primary] # 0 /\ dir[Staging] # 0
    /\ \A i \in 3..MaxIno : mtime[i] > 0 /\ \A n \in Names : dir[n] # i
    /\ \E p \in ProcIds : proc[p].pc = "release" /\ proc[p].err = "filter"

\* --------------------------------------------------------- the filter chain
\* a stage of the chain has run to its end in this step
StageDone(p) ==
    /\ Steps(p)
    /\ proc[p].pc = "filter"
    /\ proc'[p].pc \notin {"panic", "release"}

\* C31: every stage works on the remains of the stage before it, and what it
\* takes out of them is deleted from the directory in the same step: each
\* entry the stage received is afterwards either among the remains or gone
\* from the directory, never both and never neither.
C31_StagePartitionsEntries ==
    [][\A p \in ProcIds :
         StageDone(p) =>
            /\ Range(proc[p].rem) = Range(proc'[p].rem) \cup Removed
            /\ Range(proc'[p].rem) \cap Removed = {}]_vars

\* -------------------------------------------------------- the checker chain
\* the first checker of the chain that triggers or returns an error
Decisive(j) ==
    /\ j \in 1..Len(checkers)
    /\ CheckErr(checkers[j], st) \/ Check(checkers[j], st)
    /\ \A m \in 1..(j - 1) : ~CheckErr(checkers[m], st) /\ ~Check(checkers[m], st)

\* C32: a check says "roll" exactly when the first checker, in configuration
\* order, that triggers or fails is one that triggers; checkers after it do
\* not count, a failing one before it stops the chain, and a check that does
\* not say "roll" goes back to waiting without a swap.
C32_ChainShortCircuits ==
    [][Checked =>
         /\ SaidRoll <=> \E j \in 1..Len(checkers) :
                            Decisive(j) /\ ~CheckErr(checkers[j], st)
         /\ ~SaidRoll => (loops'["recv"] = loops["recv"] + 1 /\ f' = f)]_vars

\* C32 witness: the size checker in front of a failing checker has said
\* "roll" at the threshold.
C32_Witness ==
    /\ checkers = <<[kind |-> "maxSize", v |-> SizeLimit], FailingChecker>>
    /\ st.rSize >= SizeLimit
    /\ loops["roll"] > 0

\* ------------------------------------------------------------ the sort order
\* the rotation number of a family name: 0 for the base name, else the
\* digits between the base name and the extension
Rotation(n) ==
    IF n = BaseName THEN 0
    ELSE Atoi(SubSeq(n, Len(BaseName) + 2, Len(n) - Len(matcher.ext)))

\* shorter names first, names of one length by rotation number
InRotationOrder(n1, n2) ==
    \/ Len(n1) < Len(n2)
    \/ Len(n1) = Len(n2) /\ Rotation(n1) < Rotation(n2)

\* C33: the scan leaves the matched family sorted by name length and then by
\* rotation number, plain and compressed names alike, the base name first:
\* the order of two members never depends on the directory listing.
C33_SortedByRotation ==
    [][\A p \in ProcIds :
         ScanStep(p) =>
            \A i, j \in 1..Len(proc'[p].rem) :
               i < j => InRotationOrder(proc'[p].rem[i], proc'[p].rem[j])]_vars

\* ------------------------------------------------------------------ liveness
\* Write i is the last one issued, it has returned (len(p), nil) leaving the
\* cached size at or above maxSize, and its checkOnce has been started
Crossed(i) ==
    /\ nWrites = i
    /\ wr[i].pc = "done" /\ wr[i].res = "ok"
    /\ coPending > 0
    /\ \E j \in 1..Len(checkers) :
         checkers[j].kind = "maxSize" /\ checkers[j].v > 0 /\ st.rSize >= checkers[j].v
    /\ nCloseCalls = 0

\* a check has said "roll", or roll() is under way
SwapAttempted == loops["roll"] > 0 \/ loops["swap"] > 0

\* C34: after a Write that leaves the cached size at or above maxSize, unless
\* another Write or a Close is issued, a check says "roll" and roll() is
\* called in the end, also when the signal of that Write was dropped.
C34_CrossingIsChecked ==
    \A i \in WriteIds :
        Crossed(i) ~> (SwapAttempted \/ nWrites > i \/ nCloseCalls > 0)

\* the goroutines running checkAndRoll: the one of the construction and every
\* checkOnce whose send went through
LoopCount ==
    loops["recv"] + loops["parked"] + loops["check"] + loops["roll"] + loops["swap"]

\* C34 witness: the last Write has crossed the threshold, every checkOnce
\* has run and one of them has dropped its signal (fewer loops than Writes),
\* none is buffered, and a check has said "roll".
C34_Witness ==
    /\ nWrites = MaxWrites
    /\ LoopCount <= nWrites
    /\ wr[MaxWrites].pc = "done" /\ wr[MaxWrites].res = "ok"
    /\ st.rSize >= SizeLimit
    /\ coPending = 0 /\ checkCh = 0
    /\ nCloseCalls = 0
    /\ loops["roll"] > 0

\* C35: every Close returns in the end, a second Close on a closed Roll and a
\* Close issued during a cycle included, and gives the operation lock back.
C35_CloseReturns ==
    (closePc # "idle") ~> (closePc = "idle" /\ wLock # "close")

\* the step is the cycle's last rename, of the staging file onto the primary path
FinalRename ==
    \E p \in ProcIds :
        /\ proc[p].pc = "rename"
        /\ proc'[p].pc = "release"
        /\ dir'[BaseName] = dir[TmpName]
        /\ dir'[TmpName] = 0

\* C36: the matcher never accepts the staging name, so no cycle holds the
\* staging file in its list of entries (no filter can delete it, the processor
\* never renames it), and the only step of a cycle that moves the staging
\* file is the final rename onto the primary path.
C36_StagingOnlyMovedByFinalRename ==
    [][/\ ~MatcherMatch(matcher, TmpName)
       /\ \A p \in ProcIds : TmpName \notin Range(proc'[p].rem)
       /\ dir'[TmpName] # dir[TmpName] => FinalRename]_vars

\* a cycle with a filter ran over a directory with backups and ended by
\* moving the staging file onto the primary path
C36_Witness ==
    /\ Len(filters) > 0
    /\ \E p \in ProcIds : proc[p].pc = "release" /\ proc[p].err = "none"
    /\ dir[TmpName] = 0
    /\ dir[BaseName] = 2
    /\ \E n \in DOMAIN dir : n # BaseName /\ dir[n] # 0 /\ MatcherMatch(matcher, n)


\* a roll() that went into openNew returns without starting a cycle
SwapFailed == loops'["swap"] < loops["swap"] /\ nProc' = nProc

\* C37: a handle swap that fails at one of its steps leaves the previously
\* active handle in place and open, so that later Writes succeed on it, and
\* starts no cycle.
C37_FailedSwapKeepsHandle ==
    [][SwapFailed => (f' = f /\ f.gen \in opened' /\ proc' = proc)]_vars


\* the check loops that are evaluating the chain or swapping the handle
LoopsAtWork == loops["check"] + loops["roll"] + loops["swap"]

\* C38: the goroutines Write spawns end after at most one check: at most one
\* check loop (the one of the construction) ever waits for a further signal,
\* and at most one check-and-swap runs at a time.
C38_OneCheckLoop == loops["parked"] <= 1 /\ LoopsAtWork <= 1


\* Close has returned
Closed == nClosed > 0

\* Write i returns in this step
WriteReturns(i) == wr[i].pc \in {"locked", "appended"} /\ wr'[i].pc = "done"

\* C39: once Close has returned, every Write returns an error with n = 0, no
\* byte is appended to any file, the cached FileStat stays as it is, and no
\* check opens a file or swaps the handle: the Roll keeps no handle, no file
\* is created or opened and no cycle starts.
C39_ClosedRollIsInert ==
    [][Closed =>
         /\ \A i \in WriteIds : WriteReturns(i) => (wr'[i].res = "err" /\ wr'[i].n = 0)
         /\ data' = data /\ log' = log
         /\ st' = st
         /\ f = NilF /\ f' = NilF
         /\ opened' = opened /\ nGen' = nGen /\ nIno' = nIno
         /\ nProc' = nProc]_vars

\* after Close a Write has returned its error and a check of the chain has
\* said "roll" on the closed Roll
C39_Witness ==
    /\ Closed
    /\ f = NilF
    /\ \E i \in WriteIds : wr[i].pc = "done" /\ wr[i].res = "err"
    /\ loops["roll"] > 0

====
